---------------------------- MODULE Spec2Model ----------------------------
(***************************************************************************)
(* A model of chapter5_time/hw_submission/q1.py: the trajectory packer     *)
(* pack_data, the state codec of LSTM (_before_forward and the tail of     *)
(* forward), the layer/time recurrence of LSTM.forward and LSTM.__init__.  *)
(*                                                                         *)
(* Three specifications share the variables:                               *)
(*   SpecPack   pack_data, one action per iteration of its outer loop;     *)
(*   SpecCodec  _before_forward followed by the split at the end of        *)
(*              forward, as two pure functions applied to drawn states;    *)
(*   SpecLSTM   construction of a cell and calls of forward, once over a   *)
(*              whole input and step by step as test_lstm drives it.       *)
(***************************************************************************)
EXTENDS Integers, Sequences, FiniteSets, TLC

VARIABLES
    \* ---- pack_data ----
    data,        \* the argument `data`: a sequence of items, each a sequence of rows
    traj_len,    \* the argument `traj_len`
    new_data,    \* the local list new_data
    mask,        \* the local list mask
    feat_n,      \* N, item.shape[1] of every item of `data`
    item_idx,    \* how many items the loop `for item in data` has consumed
    pk_pc,       \* "idle", "loop", "done" or the exception raised
    out_data,    \* the returned tensor, [traj_len][B][N]
    out_mask,    \* the returned mask,   [traj_len][B]
    \* ---- LSTM ----
    cfg,         \* the arguments of LSTM.__init__
    cell_status, \* "none" before construction, "ok", or the exception __init__ raised
    inputs,      \* the caller's input tensor, [seq_len][batch] of row vectors
    start,       \* the prev_state the caller starts from: None or a list of records
    whole,       \* what one call of forward over all of `inputs` returned
    pos,         \* how many time slices the step-by-step run has fed
    thread,      \* the state the step-by-step caller holds between calls
    step_outs,   \* the outputs of the step-by-step calls, in order
    last,        \* what the latest step-by-step call returned
    arg,         \* the prev_state the latest step-by-step call was handed
    tampered,    \* the caller has passed a list other than the one it was handed
    \* ---- state codec ----
    merged,      \* what _before_forward returned
    resplit      \* the records the split at the end of forward makes of `merged`

packVars == <<data, traj_len, feat_n, new_data, mask, item_idx, pk_pc, out_data, out_mask>>

lstmVars == <<cfg, cell_status, inputs, start, whole, pos, thread, step_outs, last, arg,
              tampered>>

codecVars == <<merged, resplit>>

vars == <<packVars, lstmVars, codecVars>>

-----------------------------------------------------------------------------
(* Bounds of the model.                                                    *)
MaxItems == 3
MaxD == 5
MaxTrajLen == 3
MaxN == 2
MaxSeq == 2
MaxBatch == 2
MaxLayers == 2
MaxHidden == 2

(* The scenario of test_lstm.                                              *)
TestSeqLens == <<32, 49, 24, 78, 45>>
TestTrajLen == 32
TestN == 10
TestBatch == 9

Min(a, b) == IF a < b THEN a ELSE b

-----------------------------------------------------------------------------
(* Tensors of pack_data.  A row is a sequence of N numbers.  pack_data      *)
(* never reads the value of an element (it only slices, concatenates and   *)
(* stacks), so every element of the input carries a distinct non-zero tag   *)
(* naming its sequence, position and feature; 0 is the number 0.0 written   *)
(* by torch.zeros.                                                          *)
Tag(k, p, n) == k * 10000 + p * 100 + n

MkItem(k, D, N) == [p \in 1..D |-> [n \in 1..N |-> Tag(k, p, n)]]

MkData(lens, N) == [k \in 1..Len(lens) |-> MkItem(k, lens[k], N)]

\* torch.zeros(rows, N)
Zeros(rows, N) == [p \in 1..rows |-> [n \in 1..N |-> 0]]

\* torch.ones(n)
Ones(n) == [t \in 1..n |-> 1]

\* item[lo:hi] on the first axis, for 0 <= lo
PySlice(item, lo, hi) == SubSeq(item, lo + 1, Min(hi, Len(item)))

\* item[-n:] on the first axis, for n >= 1
PyTail(item, n) ==
    IF n >= Len(item) THEN item ELSE SubSeq(item, Len(item) - n + 1, Len(item))

-----------------------------------------------------------------------------
(* pack_data, lines 142-148: the branch D < traj_len.                      *)
PadItemFront(item, T, N) == Zeros(T - Len(item), N) \o item

PadItem(item, T, N) == item \o Zeros(T - Len(item), N)

\* item_mask = torch.ones(traj_len); item_mask[D:].zero_()
PadMask(D, T) == [t \in 1..T |-> IF t > D THEN 0 ELSE 1]

(* pack_data, lines 150-156: the loop `for i in range(0, D, traj_len)`,    *)
(* from offset i on.                                                        *)
RECURSIVE WindowsFrom(_, _, _)
WindowsFrom(item, T, i) ==
    IF i >= Len(item) THEN <<>>
    ELSE LET new_item == PySlice(item, i, i + T)
             kept == IF Len(new_item) < T THEN PyTail(item, T) ELSE new_item
         IN  <<kept>> \o WindowsFrom(item, T, i + T)

\* a slip: the short last window is skipped instead of replaced
RECURSIVE WindowsNoOverlap(_, _, _)
WindowsNoOverlap(item, T, i) ==
    IF i >= Len(item) THEN <<>>
    ELSE LET new_item == PySlice(item, i, i + T)
         IN  (IF Len(new_item) < T THEN <<>> ELSE <<new_item>>)
                 \o WindowsNoOverlap(item, T, i + T)

SplitItemNoOverlap(item, T) == WindowsNoOverlap(item, T, 0)

\* a slip: range(0, D + 1, traj_len), one window too many on exact multiples
RECURSIVE WindowsOneMore(_, _, _)
WindowsOneMore(item, T, i) ==
    IF i > Len(item) THEN <<>>
    ELSE LET new_item == PySlice(item, i, i + T)
             kept == IF Len(new_item) < T THEN PyTail(item, T) ELSE new_item
         IN  <<kept>> \o WindowsOneMore(item, T, i + T)

SplitItemOneMore(item, T) == WindowsOneMore(item, T, 0)

\* a slip: item[:traj_len] in place of item[-traj_len:]
RECURSIVE WindowsHeadAgain(_, _, _)
WindowsHeadAgain(item, T, i) ==
    IF i >= Len(item) THEN <<>>
    ELSE LET new_item == PySlice(item, i, i + T)
             kept == IF Len(new_item) < T THEN PySlice(item, 0, T) ELSE new_item
         IN  <<kept>> \o WindowsHeadAgain(item, T, i + T)

SplitItemHeadAgain(item, T) == WindowsHeadAgain(item, T, 0)

SplitItem(item, T) == WindowsFrom(item, T, 0)

\* one mask.append(torch.ones(traj_len)) per window
SplitMasks(item, T) == [j \in 1..Len(SplitItem(item, T)) |-> Ones(T)]

\* torch.stack(list, dim=1): out[t][b] = list[b][t]
StackDim1(list, T) == [t \in 1..T |-> [b \in 1..Len(list) |-> list[b][t]]]

-----------------------------------------------------------------------------
(* Numbers of the cell.  A float is a term over the operations that made   *)
(* it: <<operation, arguments, label>>.  Two terms are equal exactly when   *)
(* the same operations were applied to the same operands in the same       *)
(* order, which is when the floats are bit-identical whatever the weights.  *)
(* A row vector carries its width (the size of the tensor's last axis) and  *)
(* one term for its contents.                                               *)
Term(op, args, label) == <<op, args, label>>

Leaf(op, id) == <<op, <<>>, id>>

Vec(dim, val) == [dim |-> dim, val |-> val]

\* an operation applied to every element of a row
Un(op, v, label) == Vec(v.dim, Term(op, <<v.val>>, label))

\* an operation applied to two rows element by element
Bin(op, a, b) == Vec(a.dim, Term(op, <<a.val, b.val>>, 0))

\* torch.zeros(..., hidden_size): one row of it
ZeroVec(dim) == Vec(dim, Leaf("zero", 0))

\* torch.matmul(v, self.wx[l]) or torch.matmul(v, self.wh[l]): a row of width
\* dims[l + 1] * 4
MatMul(v, w, l, outdim) == Vec(outdim, Term(w, <<v.val>>, l))

\* self.norm[k](v): a row in, a row of the same width out
Norm(k, v) == Un("norm", v, k)

\* torch.chunk(gate, 4, dim=1)[idx]
Chunk4(gate, idx) == Vec(gate.dim \div 4, Term("chunk", <<gate.val>>, idx))

\* self.dropout(x): a draw of the random mask, named by `seed`
Dropout(x, seed) ==
    [s \in 1..Len(x) |-> [b \in 1..Len(x[s]) |-> Un("dropout", x[s][b], seed)]]

\* self.use_dropout = dropout > 0.
UseDropout(c) == c.dropout > 0

-----------------------------------------------------------------------------
(* LSTM.__init__, lines 30-49 and _init, line 69.  dropout is kept in      *)
(* tenths.  torch refuses a negative size (nn.LayerNorm, torch.zeros),      *)
(* nn.Dropout refuses p > 1, and 1. / 0 raises.                            *)
KnownNorms == {"LN", "BN", "IN", "SyncBN"}

\* build_normalization(norm_type)
BuildNormalization(norm_type) == IF norm_type \in KnownNorms THEN "ok" ELSE "KeyError"

ConstructOutcome(c) ==
    IF BuildNormalization(c.norm_type) # "ok" THEN BuildNormalization(c.norm_type)
    ELSE IF c.num_layers >= 1 /\ c.hidden_size < 0 THEN "RuntimeError"
    ELSE IF c.num_layers < 0 \/ c.hidden_size < 0 THEN "RuntimeError"
    ELSE IF UseDropout(c) /\ c.dropout > 10 THEN "ValueError"
    ELSE IF c.hidden_size = 0 THEN "ZeroDivisionError"
    ELSE "ok"

-----------------------------------------------------------------------------
(* The state codec.  A record is a Python dict: a sequence of <<key,         *)
(* tensor>> pairs in insertion order.  h and c are [num_layers][1] of rows. *)
NoneState == [none |-> TRUE, recs |-> <<>>]

ListState(recs) == [none |-> FALSE, recs |-> recs]

\* [v for v in prev.values()]
Values(rec) == [i \in 1..Len(rec) |-> rec[i][2]]

Keys(rec) == [i \in 1..Len(rec) |-> rec[i][1]]

\* rec[key]
Get(rec, key) == rec[CHOOSE i \in 1..Len(rec) : rec[i][1] = key][2]

RECURSIVE Flatten(_)
Flatten(ss) == IF ss = <<>> THEN <<>> ELSE Head(ss) \o Flatten(Tail(ss))

\* torch.cat(t, dim=1) of tensors that all have Len(t[1]) layers
CatDim1(t) == [l \in 1..Len(t[1]) |-> Flatten([j \in 1..Len(t) |-> t[j][l]])]

\* list(zip(*state)): as many tuples as the shortest list of values has entries
ZipStar(state) ==
    LET n == IF state = <<>> THEN 0
             ELSE CHOOSE m \in 0..Len(state[1]) :
                     /\ \A j \in 1..Len(state) : m <= Len(state[j])
                     /\ \E j \in 1..Len(state) : m = Len(state[j])
    IN  [p \in 1..n |-> [j \in 1..Len(state) |-> state[j][p]]]

ZeroState(c, batch_size) ==
    LET zeros == [l \in 1..c.num_layers |-> [b \in 1..batch_size |-> ZeroVec(c.hidden_size)]]
    IN  <<zeros, zeros>>

\* a slip: a list of the wrong length is taken for the start of a sequence
BeforeForwardResets(c, x, prev) ==
    LET batch_size == Len(x[1])
    IN  IF prev.none \/ Len(prev.recs) # batch_size
        THEN [status |-> "ok", st |-> ZeroState(c, batch_size)]
        ELSE [status |-> "ok",
              st |-> LET z == ZipStar([j \in 1..Len(prev.recs) |-> Values(prev.recs[j])])
                     IN  [p \in 1..Len(z) |-> CatDim1(z[p])]]

\* a slip: every prev_state is taken for the start of a sequence
BeforeForwardForgets(c, x, prev) ==
    IF ~prev.none /\ Len(prev.recs) # Len(x[1])
    THEN [status |-> "AssertionError", st |-> <<>>]
    ELSE [status |-> "ok", st |-> ZeroState(c, Len(x[1]))]

\* LSTM._before_forward, lines 52-65
BeforeForward(c, x, prev) ==
    LET batch_size == Len(x[1])
    IN  IF prev.none
        THEN [status |-> "ok", st |-> ZeroState(c, batch_size)]
        ELSE IF Len(prev.recs) # batch_size
        THEN [status |-> "AssertionError", st |-> <<>>]
        ELSE LET state == [j \in 1..Len(prev.recs) |-> Values(prev.recs[j])]
                 zipped == ZipStar(state)
             IN  [status |-> "ok", st |-> [p \in 1..Len(zipped) |-> CatDim1(zipped[p])]]

\* torch.chunk(t, n, dim=1) for n = t.shape[1]: n chunks of width 1
ChunkDim1(t, n) == [j \in 1..n |-> [l \in 1..Len(t) |-> <<t[l][j]>>]]

\* a slip: the batched tensors are handed to every sample whole
SplitStateWhole(h, c) ==
    [j \in 1..Len(h[1]) |-> << <<"h", h>>, <<"c", c>> >>]

\* LSTM.forward, lines 119-124
SplitState(h, c) ==
    LET batch_size == Len(h[1])
        hs == ChunkDim1(h, batch_size)
        cs == ChunkDim1(c, batch_size)
    IN  [j \in 1..batch_size |-> << <<"h", hs[j]>>, <<"c", cs[j]>> >>]

-----------------------------------------------------------------------------
(* LSTM.forward, lines 82-125.                                              *)

\* Lines 93-96: the gate pre-activations of one sample at layer l.
Gate(c, l, xv, hv) ==
    Un("add_bias",
       Bin("add", Norm(l * 2, MatMul(xv, "wx", l, c.hidden_size * 4)),
                  Norm(l * 2 + 1, MatMul(hv, "wh", l, c.hidden_size * 4))),
       l)

(* Lines 97-110: the new c and h of one sample from its gate and its c.     *)
(* i, f, o, z are the four chunks of gate, squashed; c = f * c + i * z and  *)
(* h = o * tanh(c) are two functions of the pair (gate, c) and are kept as   *)
(* such: the terms c_new(gate, c) and h_new(gate, c), of a chunk's width.    *)
CellUpdate(gate, cv) ==
    [h |-> Vec(Chunk4(gate, 2).dim, Term("h_new", <<gate.val, cv.val>>, 0)),
     c |-> Vec(Chunk4(gate, 1).dim, Term("c_new", <<gate.val, cv.val>>, 0))]

(* Below, an intermediate result that is used more than once is bound by    *)
(* `v \in {e}` (CHOOSE r \in {F(v) : v \in {e}} : TRUE is F(e)), and a      *)
(* tensor built by a function constructor is written `f \o <<>>`: both only *)
(* make the model checker compute the value once.                           *)

\* Lines 93-110 on one sample's rows: x[s], h and c of layer l.
CellStep(c, l, xv, hv, cv) ==
    CHOOSE r \in {CellUpdate(gate, cv) : gate \in {Gate(c, l, xv, hv)}} : TRUE

\* Lines 93-111 on every sample of the batch: <<h, c>> after step s.
BatchStep(c, l, xs, h, cc) ==
    CHOOSE hc \in {<<[b \in 1..Len(xs) |-> r[b].h] \o <<>>,
                     [b \in 1..Len(xs) |-> r[b].c] \o <<>>>> :
                   r \in {[b \in 1..Len(xs) |-> CellStep(c, l, xs[b], h[b], cc[b])]
                             \o <<>>}} : TRUE

\* Lines 91-111: `for s in range(seq_len)` from step s on (1-based).
RECURSIVE TimeLoop(_, _, _, _, _, _, _)
TimeLoop(c, l, x, s, h, cc, new_x) ==
    IF s > Len(x) THEN [h |-> h, c |-> cc, new_x |-> new_x]
    ELSE CHOOSE r \in {TimeLoop(c, l, x, s + 1, hc[1], hc[2], Append(new_x, hc[1])) :
                       hc \in {BatchStep(c, l, x[s], h, cc)}} : TRUE

\* Lines 88-116: `for l in range(self.num_layers)` from layer l on (0-based).
RECURSIVE LayerLoop(_, _, _, _, _, _, _)
LayerLoop(c, l, x, H, C, next_state, seed) ==
    IF l >= c.num_layers THEN [x |-> x, next_state |-> next_state]
    ELSE CHOOSE r \in
            {LayerLoop(c, l + 1,
                       IF UseDropout(c) /\ l # c.num_layers - 1
                       THEN Dropout(t.new_x, seed) ELSE t.new_x,
                       H, C, Append(next_state, <<t.h, t.c>>), seed) :
               t \in {TimeLoop(c, l, x, 1, H[l + 1], C[l + 1], <<>>)}} : TRUE

Failed(status) == [status |-> status, output |-> <<>>, next_state |-> <<>>, steps |-> 0]

NotCalled == Failed("none")

\* Lines 117-125: the layers' final (h, c) are stacked and split per sample.
Finish(c, seq_len, run) ==
    LET stacked == ZipStar(run.next_state)
    IN  IF Len(stacked) # 2
        THEN [Failed("ValueError") EXCEPT !.steps = c.num_layers * seq_len]
        ELSE [status |-> "ok",
              output |-> run.x,
              next_state |-> SplitState(stacked[1], stacked[2]),
              steps |-> c.num_layers * seq_len]

\* Lines 85-125, from the merged prev_state on.
Layers(c, x, pre, seed) ==
    IF pre.status # "ok" THEN Failed(pre.status)
    ELSE IF Len(pre.st) # 2 THEN Failed("ValueError")
    ELSE CHOOSE r \in {Finish(c, Len(x), run) :
                       run \in {LayerLoop(c, 0, x, pre.st[1], pre.st[2], <<>>, seed)}} : TRUE

\* LSTM.forward, lines 82-125
Forward(c, x, prev, seed) ==
    CHOOSE r \in {Layers(c, x, pre, seed) : pre \in {BeforeForward(c, x, prev)}} : TRUE

-----------------------------------------------------------------------------
(* The parts of the state a specification does not use stay as they are     *)
(* here.                                                                    *)
NoCfg == [input_size |-> 0, hidden_size |-> 0, num_layers |-> 0,
          norm_type |-> "LN", dropout |-> 0]

PackIdle ==
    /\ data = <<>> /\ traj_len = 0 /\ feat_n = 0 /\ new_data = <<>> /\ mask = <<>>
    /\ item_idx = 0 /\ pk_pc = "idle" /\ out_data = <<>> /\ out_mask = <<>>

CallsIdle ==
    /\ cell_status = "none" /\ whole = NotCalled /\ pos = 0 /\ thread = NoneState
    /\ step_outs = <<>> /\ last = NotCalled /\ arg = NoneState /\ tampered = FALSE

LstmIdle == cfg = NoCfg /\ inputs = <<>> /\ start = NoneState /\ CallsIdle

CodecIdle == merged = [status |-> "none", st |-> <<>>] /\ resplit = <<>>

-----------------------------------------------------------------------------
(* The state machine of pack_data.                                         *)
LenSeqs == UNION {[1..n -> 0..MaxD] : n \in 0..MaxItems}

PackInit ==
    /\ \/ \E lens \in LenSeqs, N \in 1..MaxN :
             /\ data = MkData(lens, N)
             /\ traj_len \in 1..MaxTrajLen
             /\ feat_n = N
       \/ /\ data = MkData(TestSeqLens, TestN)
          /\ traj_len = TestTrajLen
          /\ feat_n = TestN
    /\ new_data = <<>>
    /\ mask = <<>>
    /\ item_idx = 0
    /\ pk_pc = "loop"
    /\ out_data = <<>>
    /\ out_mask = <<>>
    /\ LstmIdle
    /\ CodecIdle

\* One iteration of `for item in data` (lines 140-156).
PackItem ==
    /\ pk_pc = "loop"
    /\ item_idx < Len(data)
    /\ LET item == data[item_idx + 1]
           D == Len(item)
           N == feat_n
       IN  \/ /\ D < traj_len
              /\ new_data' = Append(new_data, PadItem(item, traj_len, N))
              /\ mask' = Append(mask, PadMask(D, traj_len))
           \/ /\ ~(D < traj_len)
              /\ new_data' = new_data \o SplitItem(item, traj_len)
              /\ mask' = mask \o SplitMasks(item, traj_len)
    /\ item_idx' = item_idx + 1
    /\ UNCHANGED <<data, traj_len, feat_n, pk_pc, out_data, out_mask, lstmVars, codecVars>>

\* Lines 157-160: torch.stack raises on an empty list of tensors.
PackStack ==
    /\ pk_pc = "loop"
    /\ item_idx = Len(data)
    /\ \/ /\ new_data = <<>>
          /\ pk_pc' = "RuntimeError"
          /\ out_data' = <<>>
          /\ out_mask' = <<>>
       \/ /\ new_data # <<>>
          /\ pk_pc' = "done"
          /\ out_data' = StackDim1(new_data, traj_len)
          /\ out_mask' = StackDim1(mask, traj_len)
    /\ UNCHANGED <<data, traj_len, feat_n, new_data, mask, item_idx, lstmVars, codecVars>>

PackNext == PackItem \/ PackStack

SpecPack == PackInit /\ [][PackNext]_vars

-----------------------------------------------------------------------------
(* The callers' inputs.  forward never reads the value of an input or of a  *)
(* supplied state either: each row is a leaf naming its place.              *)
MkInputs(seq_len, batch, input_size) ==
    [s \in 1..seq_len |-> [b \in 1..batch |-> Vec(input_size, Leaf("x", s * 10 + b))]]

\* h or c of sample j: [num_layers][1] of rows
MkTensor(name, j, num_layers, hidden_size) ==
    [l \in 1..num_layers |-> <<Vec(hidden_size, Leaf(name, j * 10 + l))>>]

\* the record of sample j, its keys inserted h first or c first
MkRecord(j, h_first, num_layers, hidden_size) ==
    LET h == <<"h", MkTensor("h_prev", j, num_layers, hidden_size)>>
        c == <<"c", MkTensor("c_prev", j, num_layers, hidden_size)>>
    IN  IF h_first THEN <<h, c>> ELSE <<c, h>>

\* None, or a list of records of any length up to n
StartStates(n, num_layers, hidden_size) ==
    {NoneState} \cup
    (IF num_layers < 1 \/ hidden_size < 1 THEN {}
     ELSE {ListState([j \in 1..m |-> MkRecord(j, order[j], num_layers, hidden_size)]) :
              m \in 1..n, order \in [1..n -> BOOLEAN]})

-----------------------------------------------------------------------------
(* The state codec as two functions applied in turn.                        *)
CodecInit ==
    /\ PackIdle
    /\ CallsIdle
    /\ \E L \in 1..MaxLayers, Hd \in 1..MaxHidden, B \in 1..(MaxBatch + 1) :
          /\ cfg = [input_size |-> 1, hidden_size |-> Hd, num_layers |-> L,
                    norm_type |-> "LN", dropout |-> 0]
          /\ inputs = MkInputs(1, B, 1)
          /\ start \in StartStates(MaxBatch + 1, L, Hd)
    /\ CodecIdle

\* prev_state = self._before_forward(inputs, prev_state)
Merge ==
    /\ merged.status = "none"
    /\ merged' = BeforeForward(cfg, inputs, start)
    /\ UNCHANGED <<packVars, lstmVars, resplit>>

\* lines 119-124 applied to the merged pair
Split ==
    /\ merged.status = "ok"
    /\ resplit = <<>>
    /\ resplit' = SplitState(merged.st[1], merged.st[2])
    /\ UNCHANGED <<packVars, lstmVars, merged>>

CodecNext == Merge \/ Split

SpecCodec == CodecInit /\ [][CodecNext]_vars

-----------------------------------------------------------------------------
(* A cell and its callers: LSTM(...), one call over the whole input, and    *)
(* the loop of test_lstm, lines 177-180, that feeds one time slice per call *)
(* and hands each call the state the call before returned.                  *)
Dropouts == {-5, 0, 5, 10, 15}

InputSizes == {1, 2}

NormTypes == {"LN", "XN"}

LstmInit ==
    /\ PackIdle
    /\ CodecIdle
    /\ CallsIdle
    /\ cfg \in [input_size : InputSizes, hidden_size : -1..MaxHidden,
                num_layers : -1..MaxLayers, norm_type : NormTypes,
                dropout : Dropouts]
    /\ \E T \in 1..MaxSeq, B \in 1..MaxBatch :
          inputs = MkInputs(T, B, cfg.input_size)
    /\ start \in StartStates(MaxBatch, cfg.num_layers, cfg.hidden_size)

\* lstm = LSTM(...)
Construct ==
    /\ cell_status = "none"
    /\ cell_status' = ConstructOutcome(cfg)
    /\ UNCHANGED <<packVars, codecVars, cfg, inputs, start, whole, pos, thread,
                   step_outs, last, arg, tampered>>

DropSeeds == {0, 1}

\* output, next_state = lstm(inputs, start)
CallWhole ==
    /\ cell_status = "ok"
    /\ whole.status = "none"
    /\ \E seed \in DropSeeds : \E r \in {Forward(cfg, inputs, start, seed)} : whole' = r
    /\ UNCHANGED <<packVars, codecVars, cfg, cell_status, inputs, start, pos, thread,
                   step_outs, last, arg, tampered>>

\* What the caller holds before the call.
Held == IF pos = 0 THEN start ELSE thread

\* The caller may hand over its list with the last sample's record left out.
Supplies ==
    {Held} \cup
    (IF ~Held.none /\ Len(Held.recs) >= 2
     THEN {ListState(SubSeq(Held.recs, 1, Len(Held.recs) - 1))} ELSE {})

\* output, prev_state = lstm(input_[s:s + 1], prev_state)
CallStep ==
    /\ cell_status = "ok"
    /\ pos < Len(inputs)
    /\ last.status \in {"none", "ok"}
    /\ \E seed \in DropSeeds, supplied \in Supplies :
          \E r \in {Forward(cfg, <<inputs[pos + 1]>>, supplied, seed)} :
              /\ last' = r
              /\ arg' = supplied
              /\ tampered' = (tampered \/ supplied # Held)
              /\ \/ /\ r.status = "ok"
                    /\ pos' = pos + 1
                    /\ thread' = ListState(r.next_state)
                    /\ step_outs' = Append(step_outs, r.output)
                 \/ /\ r.status # "ok"
                    /\ UNCHANGED <<pos, thread, step_outs>>
    /\ UNCHANGED <<packVars, codecVars, cfg, cell_status, inputs, start, whole>>

LstmNext == Construct \/ CallWhole \/ CallStep

SpecLSTM == LstmInit /\ [][LstmNext]_vars

-----------------------------------------------------------------------------
(* What the packer is said to produce, written from positions alone.       *)

\* The number of trajectories a sequence of length D contributes.
TrajCount(D, T) ==
    IF D < T THEN 1 ELSE (D \div T) + (IF D % T = 0 THEN 0 ELSE 1)

\* The batch column (0-based) of the first trajectory of sequence k.
RECURSIVE ColumnOf(_)
ColumnOf(k) ==
    IF k = 1 THEN 0 ELSE ColumnOf(k - 1) + TrajCount(Len(data[k - 1]), traj_len)

TotalTrajectories == ColumnOf(Len(data) + 1)

\* Row t (1-based) of trajectory j (0-based) of sequence k.
TrajRow(k, j, t) ==
    LET D == Len(data[k])
        first == IF (j + 1) * traj_len <= D THEN j * traj_len ELSE D - traj_len
    IN  IF D < traj_len
        THEN (IF t <= D THEN data[k][t] ELSE [n \in 1..feat_n |-> 0])
        ELSE data[k][first + t]

TrajMask(k, t) == IF Len(data[k]) < traj_len /\ t > Len(data[k]) THEN 0 ELSE 1

PackedInOrder ==
    /\ Len(out_data) = traj_len
    /\ Len(out_mask) = traj_len
    /\ \A t \in 1..traj_len :
          /\ Len(out_data[t]) = TotalTrajectories
          /\ Len(out_mask[t]) = TotalTrajectories
          /\ \A k \in 1..Len(data) :
                \A j \in 0..(TrajCount(Len(data[k]), traj_len) - 1) :
                   /\ out_data[t][ColumnOf(k) + j + 1] = TrajRow(k, j, t)
                   /\ out_mask[t][ColumnOf(k) + j + 1] = TrajMask(k, t)

IsTestScenario ==
    /\ traj_len = TestTrajLen
    /\ feat_n = TestN
    /\ Len(data) = Len(TestSeqLens)
    /\ \A k \in 1..Len(data) : Len(data[k]) = TestSeqLens[k]

\* C1 as stated: pack_data over ANY ordered collection returns the
\* trajectories of all sequences side by side in encounter order, the batch
\* width of tensor and mask being the sum of the per-sequence counts.
C1_AnyCollection ==
    (pk_pc # "loop") => (pk_pc = "done" /\ PackedInOrder)

\* C1 amended: pack_data over any NON-EMPTY ordered collection and any
\* positive traj_len returns the trajectories of all sequences side by side
\* in encounter order, sequence k before sequence k+1 and within a sequence
\* in window order; the batch width of tensor and mask is the sum of the
\* per-sequence counts, which is 9 for lengths 32, 49, 24, 78, 45 and
\* traj_len 32.
C1_NonEmptyCollection ==
    /\ (pk_pc # "loop" /\ data # <<>>) => (pk_pc = "done" /\ PackedInOrder)
    /\ (pk_pc # "loop" /\ IsTestScenario) =>
          /\ Len(out_data[1]) = TestBatch
          /\ Len(out_mask[1]) = TestBatch

C1_Witness ==
    /\ pk_pc = "done"
    /\ IsTestScenario
    /\ Len(out_data) = TestTrajLen
    /\ Len(out_data[1]) = TestBatch

\* The step of PackItem on the item at hand.
AtItem == pk_pc = "loop" /\ item_idx < Len(data)

CurItem == data[item_idx + 1]

Appended(old, new) == SubSeq(new, Len(old) + 1, Len(new))

KeepsPrefix(old, new) ==
    Len(new) >= Len(old) /\ SubSeq(new, 1, Len(old)) = old

\* C2: a sequence of length D < traj_len yields exactly one trajectory: its
\* rows 0..D-1 are the sequence's rows in order, its rows D..traj_len-1 are
\* zero, and its mask is D ones followed by traj_len - D zeros.
C2_ShortIsPadded ==
    [][ (AtItem /\ item_idx' = item_idx + 1 /\ Len(CurItem) < traj_len) =>
          /\ KeepsPrefix(new_data, new_data') /\ KeepsPrefix(mask, mask')
          /\ Len(new_data') = Len(new_data) + 1
          /\ Len(mask') = Len(mask) + 1
          /\ Len(new_data'[Len(new_data')]) = traj_len
          /\ Len(mask'[Len(mask')]) = traj_len
          /\ \A t \in 1..traj_len :
                /\ new_data'[Len(new_data')][t] =
                      IF t <= Len(CurItem) THEN CurItem[t]
                      ELSE [n \in 1..feat_n |-> 0]
                /\ mask'[Len(mask')][t] = IF t <= Len(CurItem) THEN 1 ELSE 0
      ]_vars

C2_Witness ==
    /\ pk_pc = "done"
    /\ \E k \in 1..Len(data) :
          /\ Len(data[k]) >= 1
          /\ Len(data[k]) + 2 <= traj_len
          /\ out_mask[Len(data[k])][ColumnOf(k) + 1] = 1
          /\ out_mask[Len(data[k]) + 1][ColumnOf(k) + 1] = 0

\* C3: a sequence of length D >= traj_len that is no multiple of traj_len
\* yields the floor(D / traj_len) full windows at offsets 0, traj_len, ...
\* followed by one trajectory that is the sequence's last traj_len rows;
\* every one of these trajectories has an all-ones mask.
C3_OverlapWindow ==
    [][ (AtItem /\ item_idx' = item_idx + 1 /\ Len(CurItem) >= traj_len
            /\ Len(CurItem) % traj_len # 0) =>
          LET D == Len(CurItem)
              q == D \div traj_len
              base == Len(new_data)
          IN  /\ KeepsPrefix(new_data, new_data') /\ KeepsPrefix(mask, mask')
              /\ Len(new_data') = base + q + 1
              /\ Len(mask') = Len(mask) + q + 1
              /\ \A j \in 0..(q - 1) :
                    new_data'[base + j + 1] =
                       [t \in 1..traj_len |-> CurItem[j * traj_len + t]]
              /\ new_data'[base + q + 1] =
                    [t \in 1..traj_len |-> CurItem[D - traj_len + t]]
              /\ \A j \in 1..(q + 1) :
                    mask'[Len(mask) + j] = [t \in 1..traj_len |-> 1]
      ]_vars

C3_Witness ==
    /\ pk_pc = "done"
    /\ traj_len >= 2
    /\ \E k \in 1..Len(data) :
          /\ Len(data[k]) >= 2 * traj_len
          /\ Len(data[k]) % traj_len # 0
          /\ out_data[1][ColumnOf(k) + TrajCount(Len(data[k]), traj_len)]
                = data[k][Len(data[k]) - traj_len + 1]

ExactMultipleSplit ==
    LET D == Len(CurItem)
        q == D \div traj_len
    IN  /\ KeepsPrefix(new_data, new_data') /\ KeepsPrefix(mask, mask')
        /\ Len(new_data') = Len(new_data) + q
        /\ Len(mask') = Len(mask) + q
        /\ \A j \in 1..q :
              /\ Len(new_data'[Len(new_data) + j]) = traj_len
              /\ mask'[Len(mask) + j] = [t \in 1..traj_len |-> 1]
        /\ Flatten(Appended(new_data, new_data')) = CurItem

\* C4 as stated: EVERY length D that is an exact multiple of traj_len
\* (D = 0 included) yields D / traj_len trajectories with all-ones masks
\* whose concatenation is the sequence.
C4_AnyMultiple ==
    [][ (AtItem /\ item_idx' = item_idx + 1 /\ Len(CurItem) % traj_len = 0)
           => ExactMultipleSplit ]_vars

\* C4 amended: a sequence whose length D >= traj_len is an exact multiple of
\* traj_len yields D / traj_len trajectories, every mask all-ones, no
\* overlap trajectory, and the trajectories concatenated in order are the
\* sequence.
C4_PositiveMultiple ==
    [][ (AtItem /\ item_idx' = item_idx + 1 /\ Len(CurItem) % traj_len = 0
            /\ Len(CurItem) >= traj_len)
           => ExactMultipleSplit ]_vars

C4_Witness ==
    /\ pk_pc = "done"
    /\ traj_len >= 2
    /\ \E k \in 1..Len(data) :
          /\ Len(data[k]) = 2 * traj_len
          /\ out_data[traj_len][ColumnOf(k) + 2] = data[k][2 * traj_len]

-----------------------------------------------------------------------------
(* Shapes and records.                                                     *)
HasShape(t, d1, d2, d3) ==
    /\ Len(t) = d1
    /\ \A i \in 1..Len(t) :
          /\ Len(t[i]) = d2
          /\ \A j \in 1..Len(t[i]) : t[i][j].dim = d3

HoldsHAndC(rec) == Len(rec) = 2 /\ {rec[1][1], rec[2][1]} = {"h", "c"}

BatchSize == Len(inputs[1])

\* Two lists of records are the same: record by record, key by key.
SameRecords(a, b) ==
    /\ Len(a) = Len(b)
    /\ \A j \in 1..Len(a) :
          /\ HoldsHAndC(a[j]) /\ HoldsHAndC(b[j])
          /\ Get(a[j], "h") = Get(b[j], "h")
          /\ Get(a[j], "c") = Get(b[j], "c")

\* C5: split(merge(S)) = S for every list S of records that each hold an h
\* and a c of shape [num_layers, 1, hidden_size], of any batch size >= 1:
\* the list has the same length and record j has the h and the c of S[j].
C5_SplitAfterMerge ==
    (resplit # <<>> /\ ~start.none) => SameRecords(resplit, start.recs)

\* What does hold: the round trip returns S when every record of S lists h
\* before c, as the records forward itself returns do.
HFirst(recs) == \A j \in 1..Len(recs) : Keys(recs[j]) = <<"h", "c">>

RoundTripOfHFirst ==
    (resplit # <<>> /\ ~start.none /\ HFirst(start.recs)) => resplit = start.recs

\* C9: merging a list of batch_size records makes H of the records' h and C
\* of the records' c, in list order: H[:, j] is record j's h and C[:, j] is
\* record j's c, for every record that holds an h and a c; merging None
\* makes H and C zero-filled of shape [num_layers, batch_size, hidden_size].
C9_MergeTakesHAndC ==
    (merged.status = "ok") =>
       /\ Len(merged.st) = 2
       /\ HasShape(merged.st[1], cfg.num_layers, BatchSize, cfg.hidden_size)
       /\ HasShape(merged.st[2], cfg.num_layers, BatchSize, cfg.hidden_size)
       /\ \A l \in 1..cfg.num_layers : \A j \in 1..BatchSize :
             IF start.none
             THEN /\ merged.st[1][l][j] = ZeroVec(cfg.hidden_size)
                  /\ merged.st[2][l][j] = ZeroVec(cfg.hidden_size)
             ELSE /\ merged.st[1][l][j] = Get(start.recs[j], "h")[l][1]
                  /\ merged.st[2][l][j] = Get(start.recs[j], "c")[l][1]

MergeOfHFirst ==
    (merged.status = "ok" /\ ~start.none /\ HFirst(start.recs)) =>
       \A l \in 1..cfg.num_layers : \A j \in 1..BatchSize :
          /\ merged.st[1][l][j] = Get(start.recs[j], "h")[l][1]
          /\ merged.st[2][l][j] = Get(start.recs[j], "c")[l][1]

\* A call of forward over seq_len time steps returned as the contract says.
ReturnedInShape(r, seq_len) ==
    /\ r.status = "ok"
    /\ HasShape(r.output, seq_len, BatchSize, cfg.hidden_size)
    /\ Len(r.next_state) = BatchSize
    /\ \A j \in 1..Len(r.next_state) :
          /\ HoldsHAndC(r.next_state[j])
          /\ HasShape(Get(r.next_state[j], "h"), cfg.num_layers, 1, cfg.hidden_size)
          /\ HasShape(Get(r.next_state[j], "c"), cfg.num_layers, 1, cfg.hidden_size)

\* C6: on a cell with num_layers >= 1, starting from None and handing each
\* call the state the call before returned, every call returns an output of
\* shape [seq_len, batch, hidden_size] and a list of `batch` records, each
\* with exactly the keys h and c of shape [num_layers, 1, hidden_size].
C6_ShapesWhenThreaded ==
    (cfg.num_layers >= 1 /\ start.none /\ ~tampered) =>
       /\ (last.status # "none") => ReturnedInShape(last, 1)
       /\ (whole.status # "none") => ReturnedInShape(whole, Len(inputs))

C6_Witness ==
    /\ start.none /\ ~tampered
    /\ cfg.num_layers >= 2 /\ BatchSize >= 2
    /\ pos = Len(inputs) /\ pos >= 2
    /\ last.status = "ok"
    /\ whole.status = "ok"
    /\ UseDropout(cfg)

Mismatched(st) == ~st.none /\ Len(st.recs) # BatchSize

\* C7: a call whose list of records has another length than the batch of the
\* input fails at once, before any layer or time step is computed, returns
\* no output and no next state, and leaves the list and every state the
\* caller holds as they were.
C7_MismatchFailsAtOnce ==
    [][ /\ (last' # last /\ Mismatched(arg')) =>
              /\ last' = Failed("AssertionError")
              /\ last'.steps = 0
              /\ <<start, thread, pos, step_outs>>' = <<start, thread, pos, step_outs>>
        /\ (whole' # whole /\ Mismatched(start)) =>
              /\ whole' = Failed("AssertionError")
              /\ <<start, thread, pos, step_outs>>' = <<start, thread, pos, step_outs>>
      ]_vars

C7_Witness ==
    /\ last.status = "AssertionError"
    /\ Mismatched(arg)
    /\ pos >= 1
    /\ thread # NoneState

\* The configurations the interface allows.
ValidConfig(c) ==
    /\ c.hidden_size > 0
    /\ c.num_layers >= 1
    /\ c.dropout >= 0 /\ c.dropout < 10
    /\ c.norm_type \in KnownNorms

\* C8: constructing the cell fails whenever hidden_size <= 0, num_layers < 1,
\* dropout is outside [0, 1) or the normalization is unrecognized, so no
\* forward call is reachable on a cell of such a configuration.
C8_InvalidConfigFails ==
    (cell_status # "none" /\ ~ValidConfig(cfg)) =>
       /\ cell_status # "ok"
       /\ whole = NotCalled
       /\ last = NotCalled

\* C10: with dropout disabled, one call over seq_len = T time steps equals T
\* single-step calls on the T slices in order, each handed the state the call
\* before returned: the outputs joined along the time axis are the one
\* call's output and the last next state is the one call's next state.
C10_StepsEqualOneCall ==
    (~UseDropout(cfg) /\ whole.status = "ok" /\ pos = Len(inputs)) =>
       /\ Flatten(step_outs) = whole.output
       /\ thread.recs = whole.next_state

C10_Witness ==
    /\ ~UseDropout(cfg)
    /\ whole.status = "ok"
    /\ pos = Len(inputs) /\ pos >= 2
    /\ cfg.num_layers >= 2
    /\ ~start.none
    /\ BatchSize >= 2
    /\ Flatten(step_outs) = whole.output

=============================================================================
